---- MODULE Spec2Model ----
(***************************************************************************)
(* Library management service: books, users and loans (borrowed_books),    *)
(* with the request handlers of app/routes.py as actions over the store.   *)
(*                                                                         *)
(* Request bodies are JSON: a field is a tagged value, so that a missing   *)
(* field (None), a string and an integer stay distinguishable, as they are *)
(* for the validators of app/models.py.  add_book requests always carry an *)
(* author, an integer total_copies when they carry one, and a string       *)
(* status when they carry one.                                             *)
(***************************************************************************)
EXTENDS Integers, Sequences, FiniteSets, TLC

(* ------------------------------ bounds --------------------------------- *)
MaxBooks == 3
MaxCopies == 2

(* --------------------------- JSON values ------------------------------- *)
None == [t |-> "null"]
Str(s) == [t |-> "str", v |-> s]
Num(n) == [t |-> "int", v |-> n]

IsNone(j) == j.t = "null"

\* dict.get(key, default)
GetOr(j, default) == IF IsNone(j) THEN default ELSE j.v

(* ------------------------- request input sets -------------------------- *)
FirstIsbn == "1234567890123"
ISBNs == {FirstIsbn, "1234567756123"}
ThirdIsbn == "1234567966123"
ThreeIsbns == ISBNs \cup {ThirdIsbn}

T4 == "abcd"
T16 == T4 \o T4 \o T4 \o T4
T64 == T16 \o T16 \o T16 \o T16
LongTitle == T64 \o T64 \o T64 \o T64

ValidIsbnInputs == {Str(i) : i \in ISBNs}
ValidTitle == Str("Test Book")
ValidYear == Num(2021)
IsbnInputs == {None, Str("INVALID_ISBN")} \cup ValidIsbnInputs
TitleInputs == {None, Str(""), ValidTitle, Str(LongTitle)}
YearInputs == {None, Str("2021"), Num(999), ValidYear, Num(2101)}
StatusValues == {"available", "unavailable", "reserved"}
StatusInputs == {None, Str("unavailable"), Str("reserved")}
CopiesInputs == {None, Num(-1)} \cup {Num(n) : n \in 0..MaxCopies}
Emails == {"demo.user@example.com", "another.user@example.com"}
EmailInputs == {None} \cup {Str(e) : e \in Emails}
NameInputs == {None, Str("Demo User")}
UserIds == 1..(Cardinality(Emails) + 1)
QueryStatus == {None, Str("available"), Str("unavailable")}

(* ------------------------------- state --------------------------------- *)
VARIABLES
    books,      \* table books: row id = index; [isbn, status, total_copies]
    users,      \* table users: row id = index; [email]
    loans,      \* table borrowed_books: set of <<user_id, book_id>>
    added,      \* per book id, the total_copies the book was added with
    last,       \* the last request handled and its response
    before,     \* books and loans as they were when the last request arrived
    handlers    \* concurrent borrow handlers: position and locals

vars == <<books, users, loans, added, last, before, handlers>>

NoRequest ==
    [op |-> "none", user |-> 0, isbn |-> "", req |-> <<>>, arg |-> "",
     code |-> 0, msg |-> "", result |-> {}]

\* jsonify(...), status: the response to a borrow, return or add_user request
Response(op, u, i, code, msg) ==
    [op |-> op, user |-> u, isbn |-> i, req |-> <<>>, arg |-> "",
     code |-> code, msg |-> msg, result |-> {}]

\* the response to an add_book request with the validated fields r
BookResponse(r, code, msg) ==
    [op |-> "add_book", user |-> 0, isbn |-> GetOr(r[1], ""), req |-> r, arg |-> "",
     code |-> code, msg |-> msg, result |-> {}]

(* ---------------------------- validators ------------------------------- *)
validate_isbn(isbn) ==
    IF IsNone(isbn) THEN <<FALSE, "ISBN must not be empty.">>
    ELSE IF Len(isbn.v) # 13 THEN <<FALSE, "ISBN must be 13 characters long.">>
    ELSE <<TRUE, "">>

validate_title(title) ==
    IF IsNone(title) THEN <<FALSE, "Title must not be empty.">>
    ELSE IF Len(title.v) = 0 THEN <<FALSE, "Title must not be empty.">>
    ELSE IF Len(title.v) > 255 THEN <<FALSE, "Title is too long.">>
    ELSE <<TRUE, "">>

validate_publication_year(publication_year) ==
    IF IsNone(publication_year) THEN <<FALSE, "Publication year must not be empty.">>
    ELSE IF publication_year.t # "int" \/ publication_year.v < 1000 \/ publication_year.v > 2100
         THEN <<FALSE, "Publication year must be a valid number between 1000 and 2100.">>
    ELSE <<TRUE, "">>

(* ------------------------------ queries -------------------------------- *)
BookIds == 1..Len(books)

\* Book.query.filter_by(isbn=...).first(): 0 when there is no such row
BookByIsbn(isbn) ==
    LET ids == {b \in BookIds : books[b].isbn = isbn}
    IN IF ids = {} THEN 0 ELSE CHOOSE b \in ids : \A c \in ids : b <= c

\* User.query.filter_by(id=...).first() / db.session.get(User, id)
UserById_Any(user_id) == user_id

UserById(user_id) == IF user_id \in 1..Len(users) THEN user_id ELSE 0

\* User.query.filter_by(email=...).first()
UserByEmail(email) ==
    LET ids == {u \in 1..Len(users) : users[u].email = email}
    IN IF ids = {} THEN 0 ELSE CHOOSE u \in ids : \A w \in ids : u <= w

\* db.session.query(BorrowedBooks).filter_by(book_id=book.id).count()
BorrowedCount(b) == Cardinality({l \in loans : l[2] = b})

(* ------------------------------ add_book ------------------------------- *)
BookExists_NoCheck(isbn) == FALSE

\* existing_book = Book.query.filter_by(isbn=data['isbn']).first()
BookExists(isbn) == BookByIsbn(isbn) # 0

\* Book(isbn=..., status=status, total_copies=data.get('total_copies', 1))
NewBook(isbn, status, total_copies) ==
    [isbn |-> isbn.v,
     status |-> GetOr(status, "available"),
     total_copies |-> GetOr(total_copies, 1)]

add_book(isbn, title, publication_year, status, total_copies) ==
    /\ UNCHANGED <<users, loans, handlers>>
    /\ before' = <<books, loans>>
    /\ LET r == <<isbn, title, publication_year>>
           vi == validate_isbn(isbn)
           vt == validate_title(title)
           vy == validate_publication_year(publication_year)
       IN IF ~vi[1] THEN
              /\ last' = BookResponse(r, 400, vi[2])
              /\ UNCHANGED <<books, added>>
          ELSE IF ~vt[1] THEN
              /\ last' = BookResponse(r, 400, vt[2])
              /\ UNCHANGED <<books, added>>
          ELSE IF ~vy[1] THEN
              /\ last' = BookResponse(r, 400, vy[2])
              /\ UNCHANGED <<books, added>>
          ELSE IF BookExists(isbn.v) THEN
              /\ last' = BookResponse(r, 409, "Book with this ISBN already exists")
              /\ UNCHANGED <<books, added>>
          ELSE
              /\ Len(books) < MaxBooks
              /\ books' = Append(books, NewBook(isbn, status, total_copies))
              /\ added' = Append(added, GetOr(total_copies, 1))
              /\ last' = BookResponse(r, 201, "")

(* ------------------------------ add_user ------------------------------- *)
add_user(name, email) ==
    /\ UNCHANGED <<books, loans, added, handlers>>
    /\ before' = <<books, loans>>
    /\ IF IsNone(name) \/ IsNone(email) THEN
           /\ last' = Response("add_user", 0, "", 400, "Name and email are required fields")
           /\ UNCHANGED users
       ELSE IF UserByEmail(email.v) # 0 THEN
           /\ last' = Response("add_user", 0, "", 409, "User with this email already exists")
           /\ UNCHANGED users
       ELSE
           /\ users' = Append(users, [email |-> email.v])
           /\ last' = Response("add_user", Len(users) + 1, "", 201, "")

(* ----------------------------- borrow_book ----------------------------- *)
AlreadyBorrowed_NoCheck(user, book) == FALSE

\* book in user.borrowed_books
AlreadyBorrowed(user, book) == <<user, book>> \in loans

NotAvailable_Negative(borrowed_count, total_copies) == total_copies < 0

\* borrowed_count >= book.total_copies
NotAvailable(borrowed_count, total_copies) == borrowed_count >= total_copies

MarkUnavailable_Decrement(book) ==
    [books EXCEPT ![book].status = "unavailable", ![book].total_copies = @ - 1]

\* book.status = "unavailable"; db.session.commit()
MarkUnavailable(book) == [books EXCEPT ![book].status = "unavailable"]

TakeCopy_KeepStatus(book, total_copies) ==
    [books EXCEPT ![book].total_copies = total_copies - 1]

\* book.total_copies -= 1; if book.total_copies == 0: book.status = "unavailable"
\* (total_copies is the value the handler loaded with the book)
TakeCopy(book, total_copies) ==
    [books EXCEPT ![book].total_copies = total_copies - 1,
                  ![book].status = IF total_copies - 1 = 0 THEN "unavailable" ELSE @]

borrow_book(user_id, isbn) ==
    /\ UNCHANGED <<users, added, handlers>>
    /\ before' = <<books, loans>>
    /\ LET user == UserById(user_id)
           book == BookByIsbn(isbn)
       IN IF user = 0 THEN
              /\ last' = Response("borrow", user_id, isbn, 404, "User not found")
              /\ UNCHANGED <<books, loans>>
          ELSE IF book = 0 THEN
              /\ last' = Response("borrow", user_id, isbn, 404, "Book not found")
              /\ UNCHANGED <<books, loans>>
          ELSE IF AlreadyBorrowed(user, book) THEN
              /\ last' = Response("borrow", user_id, isbn, 409, "Book is already borrowed by user.")
              /\ UNCHANGED <<books, loans>>
          ELSE IF NotAvailable(BorrowedCount(book), books[book].total_copies) THEN
              /\ books' = MarkUnavailable(book)
              /\ last' = Response("borrow", user_id, isbn, 409, "The book is not available.")
              /\ UNCHANGED loans
          ELSE
              /\ loans' = loans \cup {<<user, book>>}
              /\ books' = TakeCopy(book, books[book].total_copies)
              /\ last' = Response("borrow", user_id, isbn, 200, "Book successfully borrowed.")

(* ----------------------------- return_book ----------------------------- *)
FindLoan_Any(user, book) == TRUE

\* borrowed_book = BorrowedBooks.query.filter_by(book_id=book.id, user_id=user.id).first()
FindLoan(user, book) == <<user, book>> \in loans

RemoveLoan_Keep(user, book) == loans

\* db.session.delete(borrowed_book)
RemoveLoan(user, book) == loans \ {<<user, book>>}

GiveBack_KeepCopies(book) ==
    [books EXCEPT ![book].status = IF @ = "unavailable" THEN "available" ELSE @]

GiveBack_AlwaysAvailable(book) ==
    [books EXCEPT ![book].total_copies = @ + 1, ![book].status = "available"]

\* book.total_copies += 1; if book.status == "unavailable": book.status = "available"
GiveBack(book) ==
    [books EXCEPT ![book].total_copies = @ + 1,
                  ![book].status = IF @ = "unavailable" THEN "available" ELSE @]

return_book(user_id, isbn) ==
    /\ UNCHANGED <<users, added, handlers>>
    /\ before' = <<books, loans>>
    /\ LET book == BookByIsbn(isbn)
           user == UserById(user_id)
       IN IF book = 0 THEN
              /\ last' = Response("return", user_id, isbn, 404, "Book not found.")
              /\ UNCHANGED <<books, loans>>
          ELSE IF user = 0 THEN
              /\ last' = Response("return", user_id, isbn, 404, "User not found.")
              /\ UNCHANGED <<books, loans>>
          ELSE IF ~FindLoan(user, book) THEN
              /\ last' = Response("return", user_id, isbn, 400, "Book is not currently borrowed.")
              /\ UNCHANGED <<books, loans>>
          ELSE
              /\ loans' = RemoveLoan(user, book)
              /\ books' = GiveBack(book)
              /\ last' = Response("return", user_id, isbn, 200, "Book successfully returned.")

(* ------------------------- view_avaiable_books ------------------------- *)
\* books LEFT OUTER JOIN borrowed_books ON books.id = borrowed_books.book_id:
\* one row per matching loan, or one row with a NULL loan when there is none
OuterJoin ==
    {<<b, l>> \in BookIds \X loans : l[2] = b}
        \cup {<<b, <<0, 0>> >> : b \in {c \in BookIds : \A m \in loans : m[2] # c}}

HavingAvailable_OrEqual(b) ==
    Cardinality({r \in OuterJoin : r[1] = b /\ r[2][2] # 0}) <= books[b].total_copies

\* GROUP BY books.id HAVING count(borrowed_books.book_id) < books.total_copies
\* (count skips the rows whose book_id is NULL)
HavingAvailable(b) ==
    Cardinality({r \in OuterJoin : r[1] = b /\ r[2][2] # 0}) < books[b].total_copies

ListBooks(status) ==
    IF ~IsNone(status) /\ status.v = "available"
    THEN {b \in BookIds : HavingAvailable(b)}
    ELSE BookIds

view_avaiable_books(status) ==
    /\ UNCHANGED <<books, users, loans, added, handlers>>
    /\ before' = <<books, loans>>
    /\ last' = [op |-> "list", user |-> 0, isbn |-> "", req |-> <<>>,
                arg |-> GetOr(status, ""), code |-> 200, msg |-> "",
                result |-> ListBooks(status)]

(* ---------------------- sequential specification ----------------------- *)
Handlers == {1, 2}

Idle == [pc |-> "idle", user |-> 0, isbn |-> "", book |-> 0, total_copies |-> 0,
         code |-> 0, msg |-> ""]

Init ==
    /\ books = <<>>
    /\ users = <<>>
    /\ loans = {}
    /\ added = <<>>
    /\ last = NoRequest
    /\ before = << <<>>, {} >>
    /\ handlers = [h \in Handlers |-> Idle]

\* POST /books bodies.  The handler returns at the first field that fails
\* validation and reads nothing after it, so the fields after it are absent.
AddBookRequests ==
    {<<i, None, None, None, None>> : i \in IsbnInputs \ ValidIsbnInputs}
        \cup {<<Str(FirstIsbn), t, None, None, None>> : t \in TitleInputs \ {ValidTitle}}
        \cup {<<Str(FirstIsbn), ValidTitle, y, None, None>> : y \in YearInputs \ {ValidYear}}
        \cup {<<i, ValidTitle, ValidYear, r[1], r[2]>> :
                 i \in ValidIsbnInputs, r \in StatusInputs \X CopiesInputs}

Next ==
    \/ \E r \in AddBookRequests : add_book(r[1], r[2], r[3], r[4], r[5])
    \/ \E n \in NameInputs, e \in EmailInputs : add_user(n, e)
    \/ \E u \in UserIds, i \in ISBNs : borrow_book(u, i)
    \/ \E u \in UserIds, i \in ISBNs : return_book(u, i)
    \/ \E s \in QueryStatus : view_avaiable_books(s)

Spec == Init /\ [][Next]_vars

(* ------------- requests that leave the status to its default ---------- *)
\* POST /books bodies of the tests: no status, total_copies 1, 2 or absent
DefaultBookRequests ==
    {<<Str(FirstIsbn), ValidTitle, ValidYear, None, c>> : c \in {None, Num(2)}}
        \cup {<<Str(i), ValidTitle, ValidYear, None, Num(1)>> : i \in ThreeIsbns \ {FirstIsbn}}

DefaultNext ==
    \/ \E r \in DefaultBookRequests : add_book(r[1], r[2], r[3], r[4], r[5])
    \/ \E n \in NameInputs, e \in EmailInputs : add_user(n, e)
    \/ \E u \in UserIds, i \in ThreeIsbns : borrow_book(u, i)
    \/ \E u \in UserIds, i \in ThreeIsbns : return_book(u, i)
    \/ \E s \in QueryStatus : view_avaiable_books(s)

DefaultSpec == Init /\ [][DefaultNext]_vars

(* ------------------ concurrent borrow requests (routes.py 88-128) ------ *)
(* Two POST /borrow requests served at the same time.  Each handler runs   *)
(* its statements in order; every statement that talks to the store is one *)
(* step, and the steps of the two handlers interleave freely: the handler  *)
(* takes no lock and opens no transaction around its reads.  The Book row  *)
(* is loaded once (line 99), so line 109 and line 119 use the total_copies *)
(* loaded then; the commit writes the attributes the handler changed.      *)

Finish(h, code, msg) ==
    [handlers EXCEPT ![h].pc = "done", ![h].code = code, ![h].msg = msg]

\* user = User.query.filter_by(id=data.get('user_id')).first()
LoadUser(h) ==
    /\ handlers[h].pc = "user"
    /\ handlers' = IF UserById(handlers[h].user) = 0
                   THEN Finish(h, 404, "User not found")
                   ELSE [handlers EXCEPT ![h].pc = "book"]
    /\ UNCHANGED <<books, users, loans, added, last, before>>

\* book = Book.query.filter_by(isbn=data.get('isbn')).first()
LoadBook(h) ==
    /\ handlers[h].pc = "book"
    /\ LET book == BookByIsbn(handlers[h].isbn)
       IN handlers' = IF book = 0
                      THEN Finish(h, 404, "Book not found")
                      ELSE [handlers EXCEPT ![h].pc = "borrowed", ![h].book = book,
                               ![h].total_copies = books[book].total_copies]
    /\ UNCHANGED <<books, users, loans, added, last, before>>

\* if book in user.borrowed_books
CheckBorrowed(h) ==
    /\ handlers[h].pc = "borrowed"
    /\ handlers' = IF AlreadyBorrowed(handlers[h].user, handlers[h].book)
                   THEN Finish(h, 409, "Book is already borrowed by user.")
                   ELSE [handlers EXCEPT ![h].pc = "count"]
    /\ UNCHANGED <<books, users, loans, added, last, before>>

\* borrowed_count = ...count(); if borrowed_count >= book.total_copies: ...
CheckAvailable(h) ==
    /\ handlers[h].pc = "count"
    /\ IF NotAvailable(BorrowedCount(handlers[h].book), handlers[h].total_copies)
       THEN /\ books' = MarkUnavailable(handlers[h].book)
            /\ handlers' = Finish(h, 409, "The book is not available.")
       ELSE /\ handlers' = [handlers EXCEPT ![h].pc = "commit"]
            /\ UNCHANGED books
    /\ UNCHANGED <<users, loans, added, last, before>>

\* user.borrowed_books.append(book); book.total_copies -= 1; ...; db.session.commit()
\* (the INSERT fails on the primary key when the row is there already)
CommitBorrow(h) ==
    /\ handlers[h].pc = "commit"
    /\ IF <<handlers[h].user, handlers[h].book>> \in loans
       THEN /\ handlers' = Finish(h, 500, "IntegrityError")
            /\ UNCHANGED <<books, loans>>
       ELSE /\ loans' = loans \cup {<<handlers[h].user, handlers[h].book>>}
            /\ books' = TakeCopy(handlers[h].book, handlers[h].total_copies)
            /\ handlers' = Finish(h, 200, "Book successfully borrowed.")
    /\ UNCHANGED <<users, added, last, before>>

\* the store after two add_user requests and one add_book request, and two
\* borrow requests for that book about to be handled
ConcInit ==
    /\ users = <<[email |-> "demo.user@example.com"], [email |-> "another.user@example.com"]>>
    /\ \E s \in StatusInputs, c \in 1..MaxCopies :
          /\ books = <<NewBook(Str(FirstIsbn), s, Num(c))>>
          /\ added = <<c>>
    /\ loans = {}
    /\ last = NoRequest
    /\ before = << <<>>, {} >>
    /\ \E u1 \in UserIds, u2 \in UserIds, i1 \in ISBNs, i2 \in ISBNs :
          handlers = [h \in Handlers |->
                         [Idle EXCEPT !.pc = "user",
                                      !.user = IF h = 1 THEN u1 ELSE u2,
                                      !.isbn = IF h = 1 THEN i1 ELSE i2]]

ConcNext ==
    \E h \in Handlers :
        \/ LoadUser(h)
        \/ LoadBook(h)
        \/ CheckBorrowed(h)
        \/ CheckAvailable(h)
        \/ CommitBorrow(h)

ConcSpec == ConcInit /\ [][ConcNext]_vars

(* ------------------------------ properties ----------------------------- *)
\* the request a step has just handled, read from the response it left
Handled(op) == last'.op = op
Succeeded(op) == last'.op = op /\ last'.code = 200
LastBook == BookByIsbn(last.isbn)
OtherBooksKept(b) ==
    /\ Len(books') = Len(books)
    /\ \A c \in BookIds \ {b} : books'[c] = books[c]
    /\ books'[b].isbn = books[b].isbn

\* C1: in every reachable state every stored book has status "unavailable"
\* if and only if its total_copies is 0.
C1_UnavailableIffNoCopies ==
    \A b \in BookIds : (books[b].status = "unavailable") <=> (books[b].total_copies = 0)

\* C2: a successful borrow of book b by user u creates exactly the loan (u, b),
\* decreases b.total_copies by exactly 1, sets b.status to "unavailable" when
\* the new total_copies is 0 and leaves the status as it was otherwise.
C2_BorrowEffect ==
    [][Succeeded("borrow") =>
        LET u == last'.user
            b == BookByIsbn(last'.isbn)
        IN /\ u \in 1..Len(users) /\ b \in BookIds
           /\ <<u, b>> \notin loans
           /\ loans' = loans \cup {<<u, b>>}
           /\ books'[b].total_copies = books[b].total_copies - 1
           /\ books'[b].status = IF books'[b].total_copies = 0
                                 THEN "unavailable" ELSE books[b].status
           /\ OtherBooksKept(b)
           /\ users' = users]_vars

\* a borrow has just taken the last copy of a book and made it unavailable
C2_Witness ==
    /\ last.op = "borrow" /\ last.code = 200
    /\ books[LastBook].total_copies = 0
    /\ books[LastBook].status = "unavailable"
    /\ before[1][LastBook].status = "available"
    /\ <<last.user, LastBook>> \in loans \ before[2]

\* C3: a successful return of book b by user u deletes exactly the loan (u, b),
\* increases b.total_copies by exactly 1, sets b.status to "available" when it
\* was "unavailable" and leaves any other status as it was.
C3_ReturnEffect ==
    [][Succeeded("return") =>
        LET u == last'.user
            b == BookByIsbn(last'.isbn)
        IN /\ u \in 1..Len(users) /\ b \in BookIds
           /\ <<u, b>> \in loans
           /\ loans' = loans \ {<<u, b>>}
           /\ books'[b].total_copies = books[b].total_copies + 1
           /\ books'[b].status = IF books[b].status = "unavailable"
                                 THEN "available" ELSE books[b].status
           /\ OtherBooksKept(b)
           /\ users' = users]_vars

\* a return has just left a status other than "unavailable" as it was
C3_Witness ==
    /\ last.op = "return" /\ last.code = 200
    /\ before[1][LastBook].status = "reserved"
    /\ books[LastBook].status = "reserved"
    /\ books[LastBook].total_copies = before[1][LastBook].total_copies + 1
    /\ <<last.user, LastBook>> \in before[2] \ loans

\* C4: a successful borrow of b by u immediately followed by a successful
\* return of b by u leaves b.total_copies, b.status and the loans as they were
\* before the borrow.
C4_RoundTrip ==
    [][(/\ last.op = "borrow" /\ last.code = 200
        /\ Succeeded("return")
        /\ last'.user = last.user /\ last'.isbn = last.isbn) =>
        /\ books'[LastBook].total_copies = before[1][LastBook].total_copies
        /\ books'[LastBook].status = before[1][LastBook].status
        /\ loans' = before[2]]_vars

\* C5: while the loan (u, b) exists, a borrow of b by u is rejected with 409
\* "Book is already borrowed by user." and changes nothing, whatever the
\* number of copies left.
C5_AlreadyBorrowedFirst ==
    [][(/\ Handled("borrow")
        /\ UserById(last'.user) # 0
        /\ BookByIsbn(last'.isbn) # 0
        /\ <<last'.user, BookByIsbn(last'.isbn)>> \in loans) =>
        /\ last'.code = 409
        /\ last'.msg = "Book is already borrowed by user."
        /\ UNCHANGED <<books, users, loans>>]_vars

\* the holder of a book was rejected as a holder although the capacity check
\* would have rejected the request too, and the status was not touched
C5_Witness ==
    /\ last.op = "borrow" /\ last.code = 409
    /\ last.msg = "Book is already borrowed by user."
    /\ <<last.user, LastBook>> \in loans
    /\ BorrowedCount(LastBook) >= books[LastBook].total_copies
    /\ books[LastBook].status = "available"

C7_Listing ==
    [][Handled("list") =>
        /\ last'.code = 200
        /\ last'.result = IF last'.arg = "available"
                          THEN {b \in BookIds : BorrowedCount(b) < books[b].total_copies}
                          ELSE BookIds
        /\ UNCHANGED <<books, users, loans>>]_vars

\* a status=available listing that returned some of the books and not others
C7_Witness ==
    /\ last.op = "list" /\ last.arg = "available"
    /\ last.result # {} /\ last.result # BookIds
    /\ \E b \in BookIds \ last.result : loans # {} /\ BorrowedCount(b) = books[b].total_copies

C9_LastCopyLentOnce ==
    /\ \A b \in BookIds : added[b] >= 0 => books[b].total_copies >= 0
    /\ \A b \in BookIds :
          (/\ added[b] = 1
           /\ handlers[1].book = b /\ handlers[2].book = b
           /\ handlers[1].user # handlers[2].user) =>
              ~(handlers[1].code = 200 /\ handlers[2].code = 200)

\* C10: for valid isbn, title and year, add_book answers 409 and stores
\* nothing when a book with that ISBN is stored and answers 201 and stores the
\* book otherwise, and no two stored books ever share an ISBN.
ValidRequest(r) ==
    validate_isbn(r[1])[1] /\ validate_title(r[2])[1] /\ validate_publication_year(r[3])[1]

NoDuplicateIsbn ==
    \A b \in BookIds, c \in BookIds : books[b].isbn = books[c].isbn => b = c

RequestUserExists == last'.user \in 1..Len(users)
RequestBooks == {b \in BookIds : books[b].isbn = last'.isbn}
LoansOfUser(u) == {l \in loans : l[1] = u}
LoansOnBook(b) == {l \in loans : l[2] = b}

\* C11: when a user already holds loans on two different books, a borrow of a
\* third, available book by that user is rejected with 400 and creates no loan.
C11_AtMostTwoLoans ==
    [][(/\ Handled("borrow")
        /\ RequestUserExists
        /\ RequestBooks # {}
        /\ Cardinality({l[2] : l \in LoansOfUser(last'.user)}) = 2
        /\ \A b \in RequestBooks :
              /\ <<last'.user, b>> \notin loans
              /\ Cardinality(LoansOnBook(b)) < books[b].total_copies) =>
        /\ last'.code = 400
        /\ loans' = loans]_vars

\* C12: no loan exists at the start, a loan (u, b) comes to exist only by a
\* successful borrow of b by u made while it did not exist, and ceases to exist
\* only by a successful return of b by u made while it existed; so (u, b)
\* exists exactly when the last successful borrow of b by u has not been
\* followed by a successful return, and every successful return follows such
\* a borrow.
C12_LoanLifecycle ==
    /\ loans = {}
    /\ [][LET l == <<last'.user, BookByIsbn(last'.isbn)>>
          IN IF Succeeded("borrow") THEN l \notin loans /\ loans' = loans \cup {l}
             ELSE IF Succeeded("return") THEN l \in loans /\ loans' = loans \ {l}
             ELSE loans' = loans]_vars

\* a return has just ended one loan while another loan goes on
C12_Witness ==
    /\ last.op = "return" /\ last.code = 200
    /\ <<last.user, LastBook>> \in before[2]
    /\ <<last.user, LastBook>> \notin loans
    /\ loans = before[2] \ {<<last.user, LastBook>>}
    /\ loans # {}

\* C13: every stored book's total_copies is a non-negative integer.
C13_NonNegativeCopies ==
    \A b \in BookIds : books[b].total_copies \in Nat

C15_ReturnPrecedence ==
    [][Handled("return") =>
        LET u == last'.user
            answer == <<last'.code, last'.msg>>
        IN IF RequestBooks = {}
           THEN answer = <<404, "Book not found.">> /\ UNCHANGED <<books, users, loans>>
           ELSE IF ~RequestUserExists
           THEN answer = <<404, "User not found.">> /\ UNCHANGED <<books, users, loans>>
           ELSE \A b \in RequestBooks :
                   IF <<u, b>> \notin loans
                   THEN /\ answer = <<400, "Book is not currently borrowed.">>
                        /\ UNCHANGED <<books, users, loans>>
                   ELSE last'.code = 200]_vars

\* a return naming a missing book and a missing user was answered for the book
C15_Witness ==
    /\ last.op = "return" /\ last.code = 404 /\ last.msg = "Book not found."
    /\ last.user \notin 1..Len(users)
    /\ \A b \in BookIds : books[b].isbn # last.isbn
    /\ books # <<>> /\ users # <<>>

\* C16: whenever a borrow is rejected with "The book is not available." the
\* book's total_copies is 0 at that moment.
C16_RefusedOnlyAtZero ==
    [][(Handled("borrow") /\ last'.msg = "The book is not available.") =>
        \A b \in RequestBooks : books[b].total_copies = 0]_vars

\* C17: for every book, total_copies plus the number of loans on the book
\* equals the total_copies the book was added with.
C17_CopyConservation ==
    \A b \in BookIds : books[b].total_copies + Cardinality(LoansOnBook(b)) = added[b]

\* a copy has just come back to a book while a loan goes on elsewhere
C17_Witness ==
    /\ last.op = "return" /\ last.code = 200
    /\ books[LastBook].total_copies = added[LastBook]
    /\ added[LastBook] = 2
    /\ \E b \in BookIds : LoansOnBook(b) # {} /\ books[b].total_copies < added[b]

\* C18: for a book added with status "available" and total_copies >= 1, a
\* borrow by an existing user who does not hold the book succeeds whenever the
\* book's total_copies is at least 1.
C18_EveryCopyLent ==
    [][(/\ Handled("borrow")
        /\ RequestUserExists
        /\ RequestBooks # {}
        /\ \A b \in RequestBooks :
              /\ added[b] >= 1
              /\ <<last'.user, b>> \notin loans
              /\ books[b].total_copies >= 1) =>
        /\ last'.code = 200
        /\ \A b \in RequestBooks : <<last'.user, b>> \in loans']_vars

\* C19: a book is in the status=available listing if and only if its status
\* field is "available".
C19_AvailabilityAgrees ==
    \A b \in BookIds : (b \in ListBooks(Str("available"))) <=> (books[b].status = "available")

====
